---- MODULE Spec2Model ----
(***************************************************************************)
(* Wave Function Collapse (src/src/main.rs): the sample analysis           *)
(* (generate_tiles, generate_rules), the Grid/Seat data model and the      *)
(* solver (Grid::get_state, Grid::possibilities, Grid::step,               *)
(* Grid::collapse).                                                        *)
(*                                                                         *)
(* Conventions.  Vec<T> is a sequence (1-based here, 0-based in the        *)
(* source); the cell matrix keeps the source's 0-based indices:            *)
(* data[y][x] with y in 0..h-1 and x in 0..w-1.  A weight count/(w*h) is   *)
(* kept as its numerator `count`, the denominator (the sample's cell       *)
(* count) being common to the whole table; a random draw r in [0,1) is     *)
(* kept as floor(r * denominator), which decides every comparison          *)
(* r < weight the code makes.                                              *)
(***************************************************************************)
EXTENDS Integers, Sequences, FiniteSets, TLC

VARIABLES
    pc,        \* position of the program: which call comes next
    img,       \* the sample image: [w, h, px], px[y][x] a pixel value
    tile_w,    \* generate_tiles argument
    tile_h,    \* generate_tiles argument
    sample,    \* the Grid returned by generate_tiles
    tiles,     \* the tile list returned by generate_tiles
    rules,     \* the Vec<Rule> returned by generate_rules
    weights,   \* the weight table returned by generate_rules: [num, den]
    grid,      \* the output Grid the solver works on
    seeds,     \* the cells the caller pre-collapsed: set of <<y, x, id>>
    last,      \* the last operation of the solver and its target cell
    steps,     \* Grid::step calls since the start or the last reset
    resets,    \* contradiction resets so far (saturating at MaxResets)
    depth,     \* frames of the recursive Grid::collapse on the call stack
               \* (saturating at MaxFrames: "MaxFrames or more")
    observed   \* the GridState returned by the last Grid::get_state call

vars == <<pc, img, tile_w, tile_h, sample, tiles, rules, weights, grid,
          seeds, last, steps, resets, depth, observed>>

(***************************************************************************)
(* Bounds of the model.                                                    *)
(***************************************************************************)
MaxColours == 2     \* pixel values of the sample image are 0..MaxColours-1
MaxCells == 6       \* the output grid has at most MaxCells cells
MaxSide == 3        \* and is at most MaxSide wide and MaxSide high
MaxSeeds == 1       \* the caller pre-collapses at most MaxSeeds cells
MaxResets == 1      \* the reset counter saturates here
MaxFrames == 9      \* the frame counter saturates here: the call stack has
                    \* room for at least MaxFrames frames of Grid::collapse
MaxTile == 2        \* largest tile area (tile_w * tile_h) passed to generate_tiles

(***************************************************************************)
(* Seat, Direction, Rule, GridState                                        *)
(***************************************************************************)
Collapsed(i) == [tag |-> "Collapsed", id |-> i]
Uncertain(v) == [tag |-> "Uncertain", v |-> v]

Directions == {"LEFT", "RIGHT", "UP", "DOWN"}

Rule(a, b, d) == <<a, b, d>>

\* Vec::from_iter(0..n)
RangeVec(n) == [i \in 1..n |-> i - 1]

\* Vec::contains
Contains(s, e) == \E i \in 1..Len(s) : s[i] = e

\* Seat::new building the Uncertain range for every symbol count
SeatNewUncertain(num_possibilities) == Uncertain(RangeVec(num_possibilities))

\* Seat::new
SeatNew(num_possibilities) ==
    IF num_possibilities > 1 \/ num_possibilities = 0
    THEN Uncertain(RangeVec(num_possibilities))
    ELSE Collapsed(0)

\* a get_id that answers Ok for every seat
GetIdOfAny(seat) ==
    [ok |-> TRUE, id |-> IF seat.tag = "Collapsed" THEN seat.id ELSE 0]

\* Seat::get_id: Ok(v) for a Collapsed seat, Err for an Uncertain one
GetId(seat) ==
    IF seat.tag = "Collapsed"
    THEN [ok |-> TRUE, id |-> seat.id]
    ELSE [ok |-> FALSE, id |-> 0]

\* vec![vec![seat; w]; h]
Matrix(w, h, seat) == [y \in 0..(h - 1) |-> [x \in 0..(w - 1) |-> seat]]

\* Grid::new
GridNew(w, h, num_possibilities) ==
    [data |-> Matrix(w, h, SeatNew(num_possibilities)),
     num_possibilities |-> num_possibilities,
     w |-> w,
     h |-> h]

\* the cells of a grid, as positions <<y, x>>
Cells(g) == (0..(g.h - 1)) \X (0..(g.w - 1))

\* Grid::get_state testing "at most one candidate" before the empty cells
GetStateCollapsedFirst(g) ==
    IF \A p \in Cells(g) :
           LET s == g.data[p[1]][p[2]]
           IN  IF s.tag = "Uncertain" THEN Len(s.v) <= 1 ELSE TRUE
    THEN "Collapsed"
    ELSE IF \E p \in Cells(g) :
                LET s == g.data[p[1]][p[2]]
                IN  IF s.tag = "Uncertain" THEN Len(s.v) = 0 ELSE FALSE
         THEN "Contradicting"
         ELSE "Uncollapsed"

\* Grid::get_state reporting Contradicting only when every cell is empty
GetStateAllEmpty(g) ==
    IF \A p \in Cells(g) :
           LET s == g.data[p[1]][p[2]]
           IN  IF s.tag = "Uncertain" THEN Len(s.v) = 0 ELSE FALSE
    THEN "Contradicting"
    ELSE IF \A p \in Cells(g) :
                LET s == g.data[p[1]][p[2]]
                IN  IF s.tag = "Uncertain" THEN Len(s.v) = 1 ELSE TRUE
         THEN "Collapsed"
         ELSE "Uncollapsed"

\* Grid::get_state
GetState(g) ==
    IF \E p \in Cells(g) :
           LET s == g.data[p[1]][p[2]]
           IN  IF s.tag = "Uncertain" THEN Len(s.v) = 0 ELSE FALSE
    THEN "Contradicting"
    ELSE IF \A p \in Cells(g) :
                LET s == g.data[p[1]][p[2]]
                IN  IF s.tag = "Uncertain" THEN Len(s.v) = 1 ELSE TRUE
         THEN "Collapsed"
         ELSE "Uncollapsed"

(***************************************************************************)
(* generate_tiles                                                          *)
(***************************************************************************)
\* img.view(x0, y0, tw, th).pixels(): the pixels of the view, row by row
TileView(image, x0, y0, tw, th) ==
    [i \in 1..(tw * th) |->
        image.px[y0 + ((i - 1) \div tw)][x0 + ((i - 1) % tw)]]

\* current_tile.pixels().zip(v.pixels()).all(|(c1, c2)| c1 == c2)
TileEq(t1, t2) ==
    \A i \in 1..(IF Len(t1) < Len(t2) THEN Len(t1) ELSE Len(t2)) :
        t1[i] = t2[i]

\* tiles.iter().position(..): 0-based index of the first equal tile, or -1
TilePosition(ts, tile) ==
    IF \E i \in 1..Len(ts) : TileEq(tile, ts[i])
    THEN (CHOOSE i \in 1..Len(ts) :
              /\ TileEq(tile, ts[i])
              /\ \A j \in 1..(i - 1) : ~TileEq(tile, ts[j])) - 1
    ELSE -1

\* the loop of lines 341-360 from cell number k (row-major) on
RECURSIVE TilesLoop(_, _, _, _, _, _)
TilesLoop(image, tw, th, g, ts, k) ==
    IF k >= g.w * g.h
    THEN [grid |-> g, tiles |-> ts]
    ELSE LET y == k \div g.w
             x == k % g.w
             current_tile == TileView(image, x * tw, y * th, tw, th)
             pos == TilePosition(ts, current_tile)
         IN  IF pos >= 0
             THEN TilesLoop(image, tw, th,
                      [g EXCEPT !.data[y][x] = Collapsed(pos)], ts, k + 1)
             ELSE TilesLoop(image, tw, th,
                      [g EXCEPT !.data[y][x] = Collapsed(Len(ts)),
                                !.num_possibilities = @ + 1],
                      Append(ts, current_tile), k + 1)

\* the num_possibilities generate_tiles starts its grid with (line 338)
TilesInitialCount == 1

\* generate_tiles
GenerateTilesOp(image, tw, th) ==
    IF image.w % tw # 0
    THEN [err |-> "NonFactorWidth", grid |-> GridNew(0, 0, 0), tiles |-> <<>>]
    ELSE IF image.h % th # 0
    THEN [err |-> "NonFactorHeight", grid |-> GridNew(0, 0, 0), tiles |-> <<>>]
    ELSE LET r == TilesLoop(image, tw, th,
                      GridNew(image.w \div tw, image.h \div th,
                              TilesInitialCount),
                      <<>>, 0)
         IN  [err |-> "none", grid |-> r.grid, tiles |-> r.tiles]

(***************************************************************************)
(* generate_rules                                                          *)
(***************************************************************************)
\* weights[i] += 1 for every id of the seat (lines 277-286)
RECURSIVE CountIds(_, _)
CountIds(wts, ids) ==
    IF ids = <<>>
    THEN wts
    ELSE CountIds([wts EXCEPT ![Head(ids) + 1] = @ + 1], Tail(ids))

\* the counting loop of lines 275-288 from cell number k on
RECURSIVE WeightsLoop(_, _, _)
WeightsLoop(g, wts, k) ==
    IF k >= g.w * g.h
    THEN wts
    ELSE LET s == g.data[k \div g.w][k % g.w]
         IN  WeightsLoop(g,
                 CountIds(wts, IF s.tag = "Collapsed" THEN <<s.id>> ELSE s.v),
                 k + 1)

\* rules.push(r) without the contains test
PushRuleAlways(rs, r) == Append(rs, r)

\* if !rules.contains(&r) { rules.push(r) }
PushRule(rs, r) == IF Contains(rs, r) THEN rs ELSE Append(rs, r)

\* the four pushes with the left and right neighbours exchanged
RulesAtSwapped(g, rs, y, x) ==
    LET current == GetId(g.data[y][x]).id
        left == GetId(g.data[y][x + 1]).id
        right == GetId(g.data[y][x - 1]).id
        up == GetId(g.data[y + 1][x]).id
        down == GetId(g.data[y - 1][x]).id
    IN  PushRule(PushRule(PushRule(PushRule(rs,
            Rule(left, current, "LEFT")),
            Rule(right, current, "RIGHT")),
            Rule(up, current, "UP")),
            Rule(down, current, "DOWN"))

\* the four pushes of lines 295-312 for the interior cell (y, x)
RulesAt(g, rs, y, x) ==
    LET current == GetId(g.data[y][x]).id
        left == GetId(g.data[y][x - 1]).id
        right == GetId(g.data[y][x + 1]).id
        up == GetId(g.data[y + 1][x]).id
        down == GetId(g.data[y - 1][x]).id
    IN  PushRule(PushRule(PushRule(PushRule(rs,
            Rule(left, current, "LEFT")),
            Rule(right, current, "RIGHT")),
            Rule(up, current, "UP")),
            Rule(down, current, "DOWN"))

\* the loop of lines 293-314 over the interior cells, from interior cell
\* number k on (the interior is (w-2) columns wide, rows 1..h-2)
RECURSIVE RulesLoop(_, _, _)
RulesLoop(g, rs, k) ==
    IF g.h < 3 \/ g.w < 3 \/ k >= (g.w - 2) * (g.h - 2)
    THEN rs
    ELSE RulesLoop(g,
             RulesAt(g, rs, 1 + (k \div (g.w - 2)), 1 + (k % (g.w - 2))),
             k + 1)

\* generate_rules: the rule list and the weight table.  The table
\* v as f32 / (grid.w * grid.h) as f32 is kept as the counts v (num) and
\* the divisor (den).
GenerateRulesOp(g) ==
    [rules |-> RulesLoop(g, <<>>, 0),
     weights |->
         [num |-> WeightsLoop(g, [i \in 1..g.num_possibilities |-> 0], 0),
          den |-> g.w * g.h]]

(***************************************************************************)
(* shannon_entropy.  f32 values are kept in fixed point, LogScale units    *)
(* per bit; a NaN is the flag nan.  log2 of a weight num/den is            *)
(* Log2Fix(num) - Log2Fix(den).                                            *)
(***************************************************************************)
LogScale == 1024
MantissaScale == 4096

\* floor(log2(n)), n >= 1
RECURSIVE Log2Int(_)
Log2Int(n) == IF n < 2 THEN 0 ELSE 1 + Log2Int(n \div 2)

\* 2^e
RECURSIVE Pow2(_)
Pow2(e) == IF e = 0 THEN 1 ELSE 2 * Pow2(e - 1)

\* the fraction of log2(m / MantissaScale), m / MantissaScale in [1, 2),
\* by repeated squaring; `unit` is the value of the next binary digit
RECURSIVE Log2Frac(_, _)
Log2Frac(m, unit) ==
    IF unit = 0
    THEN 0
    ELSE LET sq == (m * m) \div MantissaScale
         IN  IF sq >= 2 * MantissaScale
             THEN unit + Log2Frac(sq \div 2, unit \div 2)
             ELSE Log2Frac(sq, unit \div 2)

\* f32::log2 of the integer n >= 1, in LogScale units
Log2Fix(n) ==
    LET e == Log2Int(n)
    IN  e * LogScale
        + Log2Frac((n * MantissaScale) \div Pow2(e), LogScale \div 2)

\* weights[id] as its numerator
W(wts, id) == wts.num[id + 1]

\* possibilities.iter().map(|v| weights[*v]).sum()
RECURSIVE SumW(_, _)
SumW(v, wts) ==
    IF v = <<>> THEN 0 ELSE W(wts, Head(v)) + SumW(Tail(v), wts)

\* possibilities.iter().map(|v| weights[*v] * weights[*v].log2()).sum(),
\* times den (every weight of v is positive)
RECURSIVE SumWLogW(_, _)
SumWLogW(v, wts) ==
    IF v = <<>>
    THEN 0
    ELSE W(wts, Head(v))
             * (Log2Fix(W(wts, Head(v))) - Log2Fix(wts.den))
         + SumWLogW(Tail(v), wts)

\* f32::MAX, the initial min_entropy (line 174): above every entropy
F32Max == 1073741824

\* shannon_entropy: [nan, val].  0.0 * log2(0.0) and 0.0 / 0.0 are NaN, so
\* an empty candidate list or a zero weight gives NaN.
ShannonEntropy(seat, wts) ==
    IF seat.tag = "Collapsed"
    THEN [nan |-> FALSE, val |-> 0]
    ELSE IF seat.v = <<>> \/ \E i \in 1..Len(seat.v) : W(wts, seat.v[i]) = 0
    THEN [nan |-> TRUE, val |-> 0]
    ELSE LET sum == SumW(seat.v, wts)
             log_sum == SumWLogW(seat.v, wts)
         IN  [nan |-> FALSE,
              val |-> (Log2Fix(sum) - Log2Fix(wts.den))
                      - (log_sum \div sum)]

\* a comparison that also replaces the minimum on equal entropy
EntropyLessOrEqual(e1, e2) == ~e1.nan /\ ~e2.nan /\ e1.val <= e2.val

\* current_entropy < min_entropy.2 on f32: false when either side is NaN
EntropyLess(e1, e2) == ~e1.nan /\ ~e2.nan /\ e1.val < e2.val

(***************************************************************************)
(* Grid::possibilities                                                     *)
(***************************************************************************)
\* rules.iter().filter(|v| v.1 == cell_type && v.2 == direction).map(|v| v.0)
RuleMatches(rs, cell_type, direction) ==
    LET f == SelectSeq(rs, LAMBDA r : r[2] = cell_type /\ r[3] = direction)
    IN  [i \in 1..Len(f) |-> f[i][1]]

\* a push of every matching id, duplicates included
RECURSIVE PushEvery(_, _)
PushEvery(temp, vs) ==
    IF vs = <<>> THEN temp ELSE PushEvery(Append(temp, Head(vs)), Tail(vs))

\* for v in .. { if !temp.contains(&v) { temp.push(v) } }
RECURSIVE PushUnique(_, _)
PushUnique(temp, vs) ==
    IF vs = <<>>
    THEN temp
    ELSE PushUnique(IF Contains(temp, Head(vs)) THEN temp
                    ELSE Append(temp, Head(vs)),
                    Tail(vs))

\* the loop over the cell types of the surrounding seat (lines 143-153,
\* and lines 156-164 for the single type of a Collapsed seat)
RECURSIVE PossLoop(_, _, _, _)
PossLoop(temp, cell_types, direction, rs) ==
    IF cell_types = <<>>
    THEN temp
    ELSE PossLoop(PushUnique(temp, RuleMatches(rs, Head(cell_types), direction)),
                  Tail(cell_types), direction, rs)

\* Grid::possibilities: the Option<Vec<usize>> as [some, v]
Possibilities(surrounding, direction, rs) ==
    LET temp_possibilities ==
            PossLoop(<<>>,
                     IF surrounding.tag = "Uncertain" THEN surrounding.v
                     ELSE <<surrounding.id>>,
                     direction, rs)
    IN  [some |-> Len(temp_possibilities) # 0, v |-> temp_possibilities]

(***************************************************************************)
(* Grid::step                                                              *)
(***************************************************************************)
\* the scan of lines 175-192 from cell number k (row-major) on:
\* the grid with the one-element Uncertain seats finalized, and min_entropy
RECURSIVE ScanLoop(_, _, _, _)
ScanLoop(g, wts, k, min_entropy) ==
    IF k >= g.w * g.h
    THEN [grid |-> g, min_entropy |-> min_entropy]
    ELSE LET y == k \div g.w
             x == k % g.w
             s == g.data[y][x]
         IN  IF s.tag = "Collapsed"
             THEN ScanLoop(g, wts, k + 1, min_entropy)
             ELSE LET g1 == IF Len(s.v) = 1
                            THEN [g EXCEPT !.data[y][x] = Collapsed(s.v[1])]
                            ELSE g
                      current_entropy == ShannonEntropy(g1.data[y][x], wts)
                  IN  ScanLoop(g1, wts, k + 1,
                          IF EntropyLess(current_entropy, min_entropy.e)
                          THEN [y |-> y, x |-> x, e |-> current_entropy]
                          ELSE min_entropy)

\* let mut min_entropy = (0, 0, std::f32::MAX), then the scan
Scan(g, wts) ==
    ScanLoop(g, wts, 0,
             [y |-> 0, x |-> 0, e |-> [nan |-> FALSE, val |-> F32Max]])

\* a push of the neighbour's list whether or not it is None
PushAlways(collection, p) == Append(collection, p.v)

\* if p.is_some() { possibilties_collection.push(p.unwrap()) }
PushSome(collection, p) == IF p.some THEN Append(collection, p.v) ELSE collection

\* the direction step passes for the neighbour at (dy, dx) from the target,
\* lines 195-221
QueryDirection(dy, dx) ==
    IF dy = -1 THEN "UP"
    ELSE IF dy = 1 THEN "DOWN"
    ELSE IF dx = 1 THEN "RIGHT"
    ELSE "LEFT"

\* lines 193-221: the constraint lists of the existing neighbours of (y, x),
\* in the order up (y-1), down (y+1), right (x+1), left (x-1)
Collection(g, y, x, rs) ==
    LET c1 == IF y # 0
              THEN PushSome(<<>>,
                       Possibilities(g.data[y - 1][x], QueryDirection(-1, 0), rs))
              ELSE <<>>
        c2 == IF y < g.h - 1
              THEN PushSome(c1,
                       Possibilities(g.data[y + 1][x], QueryDirection(1, 0), rs))
              ELSE c1
        c3 == IF x < g.w - 1
              THEN PushSome(c2,
                       Possibilities(g.data[y][x + 1], QueryDirection(0, 1), rs))
              ELSE c2
        c4 == IF x # 0
              THEN PushSome(c3,
                       Possibilities(g.data[y][x - 1], QueryDirection(0, -1), rs))
              ELSE c3
    IN  c4

\* p.iter().filter(|v| possibilities.contains(v)).map(|v| *v).collect()
Retain(p, possibilities) == SelectSeq(p, LAMBDA v : Contains(possibilities, v))

\* the loop of lines 223-229 over the collection left after the pop
RECURSIVE Intersect(_, _)
Intersect(possibilities, collection) ==
    IF collection = <<>>
    THEN possibilities
    ELSE Intersect(Retain(Head(collection), possibilities), Tail(collection))

\* insertion of e behind every element whose weight is not above e's
RECURSIVE InsertByWeight(_, _, _)
InsertByWeight(sorted, e, wts) ==
    IF sorted = <<>>
    THEN <<e>>
    ELSE IF W(wts, e) < W(wts, Head(sorted))
    THEN <<e>> \o sorted
    ELSE <<Head(sorted)>> \o InsertByWeight(Tail(sorted), e, wts)

\* possibilities.sort_by(|v0, v1| weights[*v0].total_cmp(&weights[*v1])),
\* a stable sort
RECURSIVE SortByWeight(_, _)
SortByWeight(v, wts) ==
    IF v = <<>>
    THEN <<>>
    ELSE InsertByWeight(SortByWeight(SubSeq(v, 1, Len(v) - 1), wts),
                        v[Len(v)], wts)

\* a sampling that always takes the first (lowest-weight) possibility
SampledLowest(possibilities, wts, r) ==
    IF possibilities # <<>> THEN possibilities[1] ELSE -1

\* lines 231-241: the first possibility whose weight is above the draw, or
\* the last one; -1 for None.  The draw r is given as floor(r * den).
Sampled(possibilities, wts, r) ==
    IF \E i \in 1..Len(possibilities) : r < W(wts, possibilities[i])
    THEN possibilities[CHOOSE i \in 1..Len(possibilities) :
             /\ r < W(wts, possibilities[i])
             /\ \A j \in 1..(i - 1) : ~(r < W(wts, possibilities[j]))]
    ELSE IF possibilities # <<>>
    THEN possibilities[Len(possibilities)]
    ELSE -1

\* lines 242-245
Commit(sampled_idx) ==
    IF sampled_idx >= 0 THEN Collapsed(sampled_idx) ELSE Uncertain(<<>>)

\* Grid::step up to the draw (lines 174-230): [panic, grid, y, x,
\* possibilities].  panic is the unwrap of line 222 on an empty collection;
\* grid is the scanned grid, (y, x) the target, possibilities the sorted
\* intersection.
StepScan(g, rs, wts) ==
    LET sc == Scan(g, wts)
        y == sc.min_entropy.y
        x == sc.min_entropy.x
        possibilties_collection == Collection(sc.grid, y, x, rs)
        n == Len(possibilties_collection)
    IN  IF n = 0
        THEN [panic |-> TRUE, grid |-> sc.grid, y |-> y, x |-> x,
              possibilities |-> <<>>]
        ELSE [panic |-> FALSE, grid |-> sc.grid, y |-> y, x |-> x,
              possibilities |->
                  SortByWeight(
                      Intersect(possibilties_collection[n],
                                SubSeq(possibilties_collection, 1, n - 1)),
                      wts)]

\* Grid::step from the draw r on (lines 231-245): the grid after the step
StepCommit(pre, wts, r) ==
    [pre.grid EXCEPT
        !.data[pre.y][pre.x] = Commit(Sampled(pre.possibilities, wts, r))]

(***************************************************************************)
(* The program: main (lines 363-377) runs generate_tiles, generate_rules,  *)
(* Grid::new, the seeding of the grid and Grid::collapse.  Each call of    *)
(* the recursive Grid::collapse is one action: it reads get_state and      *)
(* takes the matching arm; the Uncollapsed and Contradicting arms end in a *)
(* recursive call, so each of them leaves one more frame on the call stack *)
(* (depth), and a call without room for its frame aborts the process.      *)
(***************************************************************************)
\* the pixels <<y, x>> of a w x h image outside `fixed`
FreePixels(w, h, fixed) == ((0..(h - 1)) \X (0..(w - 1))) \ fixed

\* the w x h image with colour 0 at the pixels `fixed` and f elsewhere
ImageOf(w, h, fixed, f) ==
    [w |-> w, h |-> h,
     px |-> [y \in 0..(h - 1) |-> [x \in 0..(w - 1) |->
                IF <<y, x>> \in fixed THEN 0 ELSE f[<<y, x>>]]]]

\* the sample images of the solver runs, as <<w, h, fixed>>: 3 x 3 (one
\* interior cell) with three corners of colour 0, and 4 x 3 (two interior
\* cells) with the corners and the cells above and below the second
\* interior cell of colour 0
SolverSamples ==
    {<<3, 3, {<<0, 0>>, <<0, 2>>, <<2, 0>>}>>,
     <<4, 3, {<<0, 0>>, <<0, 3>>, <<2, 0>>, <<2, 3>>, <<0, 2>>, <<2, 2>>}>>}

\* the shapes <<w, h>> of the sample images of the sample-analysis runs
GenShapes == {<<1, 1>>, <<2, 2>>, <<3, 1>>, <<4, 1>>, <<1, 3>>, <<4, 2>>,
              <<3, 3>>}

\* the sample images of the sample-analysis runs, as <<w, h, fixed>>: every
\* image of the shapes above, and the 4 x 3 images (two interior cells)
\* with corners of colour 0
GenSamples ==
    {<<sh[1], sh[2], {}>> : sh \in GenShapes}
    \cup {<<4, 3, {<<0, 0>>, <<0, 3>>, <<2, 0>>, <<2, 3>>}>>}

\* the tile sizes <<tile_w, tile_h>> of the sample-analysis runs
TileSizes == {t \in (1..MaxTile) \X (1..MaxTile) : t[1] * t[2] <= MaxTile}

\* the shapes <<w, h>> of the output grid
GridShapes ==
    {sh \in (1..MaxSide) \X (1..MaxSide) : sh[1] * sh[2] <= MaxCells}

\* the sets of at most k seeds on distinct cells, drawn from `one`
RECURSIVE SeedSets(_, _)
SeedSets(one, k) ==
    IF k = 0
    THEN {{}}
    ELSE LET smaller == SeedSets(one, k - 1)
         IN  smaller \cup
             {sd \cup {e} : <<sd, e>> \in
                 {p \in smaller \X one :
                     \A s \in p[1] : s.y # p[2].y \/ s.x # p[2].x}}

\* the seedings of a w x h grid over n symbols: at most MaxSeeds cells, each
\* written as Collapsed(id) or as the one-element Uncertain(vec![id])
SeedChoices(w, h, n) ==
    SeedSets({[y |-> y, x |-> x, id |-> id, seat |-> st] :
                 y \in 0..(h - 1), x \in 0..(w - 1), id \in 0..(n - 1),
                 st \in {"Collapsed", "Uncertain"}},
             MaxSeeds)

\* grid.data[y][x] = seat for every seed (line 374)
Seeded(g, sd) ==
    [g EXCEPT !.data =
        [y \in 0..(g.h - 1) |-> [x \in 0..(g.w - 1) |->
            IF \E s \in sd : s.y = y /\ s.x = x
            THEN LET s == CHOOSE s \in sd : s.y = y /\ s.x = x
                 IN  IF s.seat = "Collapsed" THEN Collapsed(s.id)
                     ELSE Uncertain(<<s.id>>)
            ELSE g.data[y][x]]]]

NoGrid == GridNew(0, 0, 0)
NoWeights == [num |-> <<>>, den |-> 1]
\* the last operation on the grid: its name, the cell it targeted and, for a
\* direct call of Grid::step, the random draw
NoLast == [op |-> "none", y |-> 0, x |-> 0, draw |-> 0]

InitWith(samples, tile_sizes) ==
    /\ \E sm \in samples :
           \E f \in [FreePixels(sm[1], sm[2], sm[3]) -> 0..(MaxColours - 1)] :
               img = ImageOf(sm[1], sm[2], sm[3], f)
    /\ \E t \in tile_sizes : tile_w = t[1] /\ tile_h = t[2]
    /\ pc = "generate_tiles"
    /\ sample = NoGrid
    /\ tiles = <<>>
    /\ rules = <<>>
    /\ weights = NoWeights
    /\ grid = NoGrid
    /\ seeds = {}
    /\ last = NoLast
    /\ steps = 0
    /\ resets = 0
    /\ depth = 0
    /\ observed = "none"

\* main, lines 364-365: generate_tiles(&img, 1, 1)
Init == InitWith(SolverSamples, {<<1, 1>>})

\* main, line 365
GenerateTiles ==
    /\ pc = "generate_tiles"
    /\ LET res == GenerateTilesOp(img, tile_w, tile_h)
       IN  /\ sample' = res.grid
           /\ tiles' = res.tiles
           /\ pc' = IF res.err = "none" THEN "generate_rules" ELSE res.err
    /\ UNCHANGED <<img, tile_w, tile_h, rules, weights, grid, seeds, last,
                   steps, resets, observed,
                   depth>>

\* main, line 366
GenerateRules ==
    /\ pc = "generate_rules"
    /\ LET res == GenerateRulesOp(sample)
       IN  /\ rules' = res.rules
           /\ weights' = res.weights
    /\ pc' = "new_grid"
    /\ UNCHANGED <<img, tile_w, tile_h, sample, tiles, grid, seeds, last,
                   steps, resets, observed,
                   depth>>

\* main, lines 367-374: Grid::new and the caller's seeding
NewGrid ==
    /\ pc = "new_grid"
    /\ \E sh \in GridShapes, n \in 0..Len(tiles) :
           \E sd \in SeedChoices(sh[1], sh[2], n) :
               /\ grid' = Seeded(GridNew(sh[1], sh[2], n), sd)
               /\ seeds' = sd
    /\ pc' = "collapse"
    /\ UNCHANGED <<img, tile_w, tile_h, sample, tiles, rules, weights, last,
                   steps, resets, observed,
                   depth>>

\* Grid::collapse, arm Uncollapsed (lines 249-252), step committing a cell
CollapseStep ==
    /\ pc = "collapse"
    /\ depth' = IF depth < MaxFrames THEN depth + 1 ELSE depth
    /\ GetState(grid) = "Uncollapsed"
    /\ \E pre \in {StepScan(grid, rules, weights)} :
           /\ ~pre.panic
           /\ \E r \in 0..(weights.den - 1) :
                  grid' = StepCommit(pre, weights, r)
           /\ last' = [op |-> "step", y |-> pre.y, x |-> pre.x, draw |-> 0]
    /\ steps' = steps + 1
    /\ observed' = "Uncollapsed"
    /\ UNCHANGED <<pc, img, tile_w, tile_h, sample, tiles, rules, weights,
                   seeds, resets>>

\* Grid::collapse, arm Uncollapsed, step failing at the unwrap of line 222
CollapseStepPanic ==
    /\ pc = "collapse"
    /\ GetState(grid) = "Uncollapsed"
    /\ \E pre \in {StepScan(grid, rules, weights)} :
           /\ pre.panic
           /\ grid' = pre.grid
           /\ last' = [op |-> "panic", y |-> pre.y, x |-> pre.x, draw |-> 0]
    /\ pc' = "panicked"
    /\ observed' = "Uncollapsed"
    /\ UNCHANGED <<img, tile_w, tile_h, sample, tiles, rules, weights, seeds,
                   steps, resets,
                   depth>>

\* a reset that renews only the empty cells
CollapseResetEmptyOnly ==
    /\ pc = "collapse"
    /\ depth' = IF depth < MaxFrames THEN depth + 1 ELSE depth
    /\ GetState(grid) = "Contradicting"
    /\ grid' = [grid EXCEPT !.data =
                   [y \in 0..(grid.h - 1) |-> [x \in 0..(grid.w - 1) |->
                       IF grid.data[y][x] = Uncertain(<<>>)
                       THEN SeatNew(grid.num_possibilities)
                       ELSE grid.data[y][x]]]]
    /\ last' = [op |-> "reset", y |-> 0, x |-> 0, draw |-> 0]
    /\ steps' = 0
    /\ resets' = IF resets < MaxResets THEN resets + 1 ELSE resets
    /\ observed' = "Contradicting"
    /\ UNCHANGED <<pc, img, tile_w, tile_h, sample, tiles, rules, weights,
                   seeds>>

\* Grid::collapse, arm Contradicting (lines 254-257)
CollapseReset ==
    /\ pc = "collapse"
    /\ depth' = IF depth < MaxFrames THEN depth + 1 ELSE depth
    /\ GetState(grid) = "Contradicting"
    /\ grid' = [grid EXCEPT
                   !.data = Matrix(grid.w, grid.h, SeatNew(grid.num_possibilities))]
    /\ last' = [op |-> "reset", y |-> 0, x |-> 0, draw |-> 0]
    /\ steps' = 0
    /\ resets' = IF resets < MaxResets THEN resets + 1 ELSE resets
    /\ observed' = "Contradicting"
    /\ UNCHANGED <<pc, img, tile_w, tile_h, sample, tiles, rules, weights,
                   seeds>>

\* a call of Grid::collapse (line 374, or the recursive calls of lines 251
\* and 256, which keep the caller's frame) that finds no room on the call
\* stack: the process aborts with a stack overflow.  The source does not
\* fix the capacity of the stack (it is set by the build and by the stack
\* limit of the process): it is any number of frames from MaxFrames on, so
\* the abort is possible at every call made with MaxFrames or more frames
\* in use, and at none before.
CollapseOverflow ==
    /\ pc = "collapse"
    /\ depth = MaxFrames
    /\ pc' = "stack_overflow"
    /\ last' = [op |-> "overflow", y |-> 0, x |-> 0, draw |-> 0]
    /\ UNCHANGED <<img, tile_w, tile_h, sample, tiles, rules, weights, grid,
                   seeds, steps, resets, depth, observed>>

\* Grid::collapse, arm Collapsed (line 253)
CollapseReturn ==
    /\ pc = "collapse"
    /\ GetState(grid) = "Collapsed"
    /\ pc' = "returned"
    /\ last' = [op |-> "return", y |-> 0, x |-> 0, draw |-> 0]
    /\ observed' = "Collapsed"
    /\ UNCHANGED <<img, tile_w, tile_h, sample, tiles, rules, weights, grid,
                   seeds, steps, resets,
                   depth>>

\* main, line 376: Grid::render (lines 16-33), every get_id().unwrap()
\* succeeding; the output image is kept as the tile id drawn at each cell
Render ==
    /\ pc = "returned"
    /\ \A p \in Cells(grid) : GetId(grid.data[p[1]][p[2]]).ok
    /\ last' = [op |-> "render", y |-> 0, x |-> 0, draw |-> 0,
                output |-> [y \in 0..(grid.h - 1) |-> [x \in 0..(grid.w - 1) |->
                               GetId(grid.data[y][x]).id]]]
    /\ pc' = "rendered"
    /\ UNCHANGED <<img, tile_w, tile_h, sample, tiles, rules, weights, grid,
                   seeds, steps, resets, observed,
                   depth>>

\* Grid::render failing at the get_id().unwrap() of line 25 on a cell that
\* is not tagged Collapsed
RenderPanic ==
    /\ pc = "returned"
    /\ \E p \in Cells(grid) : ~GetId(grid.data[p[1]][p[2]]).ok
    /\ last' = [op |-> "render_panic", y |-> 0, x |-> 0, draw |-> 0]
    /\ pc' = "render_panicked"
    /\ UNCHANGED <<img, tile_w, tile_h, sample, tiles, rules, weights, grid,
                   seeds, steps, resets, observed,
                   depth>>

Next ==
    \/ GenerateTiles
    \/ GenerateRules
    \/ NewGrid
    \/ CollapseStep
    \/ CollapseStepPanic
    \/ CollapseReset
    \/ CollapseReturn
    \/ CollapseOverflow
    \/ Render
    \/ RenderPanic

Spec == Init /\ [][Next]_vars

(***************************************************************************)
(* The sample analysis alone, on more samples and tile sizes.              *)
(***************************************************************************)
InitGen == InitWith(GenSamples, TileSizes)

NextGen ==
    \/ GenerateTiles
    \/ GenerateRules

SpecGen == InitGen /\ [][NextGen]_vars

(***************************************************************************)
(* Grid::get_state alone, on arbitrary cell matrices.                      *)
(***************************************************************************)
\* the ids of a set in ascending order
RECURSIVE AscendingVec(_)
AscendingVec(ids) ==
    IF ids = {}
    THEN <<>>
    ELSE LET m == CHOOSE i \in ids : \A j \in ids : i <= j
         IN  <<m>> \o AscendingVec(ids \ {m})

\* the seats over n symbols: Collapsed(id), and Uncertain of every
\* candidate set (no duplicates, ascending)
SeatsOver(n) ==
    {Collapsed(i) : i \in 0..(n - 1)}
    \cup {Uncertain(AscendingVec(ids)) : ids \in SUBSET (0..(n - 1))}

InitState ==
    /\ \E sh \in GridShapes :
           \E d \in [0..(sh[2] - 1) -> [0..(sh[1] - 1) -> SeatsOver(MaxColours)]] :
               grid = [data |-> d, num_possibilities |-> MaxColours,
                       w |-> sh[1], h |-> sh[2]]
    /\ pc = "get_state"
    /\ img = [w |-> 0, h |-> 0, px |-> <<>>]
    /\ tile_w = 1
    /\ tile_h = 1
    /\ sample = NoGrid
    /\ tiles = <<>>
    /\ rules = <<>>
    /\ weights = NoWeights
    /\ seeds = {}
    /\ last = NoLast
    /\ steps = 0
    /\ resets = 0
    /\ depth = 0
    /\ observed = "none"

\* a call of Grid::get_state (&self)
GetStateCall ==
    /\ pc = "get_state"
    /\ observed' = GetState(grid)
    /\ pc' = "observed"
    /\ UNCHANGED <<img, tile_w, tile_h, sample, tiles, rules, weights, grid,
                   seeds, last, steps, resets,
                   depth>>

NextState == GetStateCall

SpecState == InitState /\ [][NextState]_vars

(***************************************************************************)
(* Grid::step and Grid::possibilities alone, on grids whose cells hold     *)
(* arbitrary seats, with the rules and weights of a sample.                *)
(***************************************************************************)
\* the sample images of these runs, as <<w, h, fixed>>: 4 x 3 (two interior
\* cells, so up to two rules for a subject and direction) with the corners
\* and the cells above and below the second interior cell of colour 0
StepSamples ==
    {<<4, 3, {<<0, 0>>, <<0, 3>>, <<2, 0>>, <<2, 3>>, <<0, 2>>, <<2, 2>>}>>}

\* the shapes <<w, h>> of the grid of these runs: strips of two or three
\* cells, so that a target has one or two neighbours
StepShapes == {<<2, 1>>, <<1, 2>>, <<3, 1>>, <<1, 3>>}

InitStep == InitWith(StepSamples, {<<1, 1>>})

\* Grid::new(w, h, tiles.len()) and grid.data[y][x] = seat for every cell
SeedAny ==
    /\ pc = "new_grid"
    /\ \E sh \in StepShapes :
           \E d \in [0..(sh[2] - 1) -> [0..(sh[1] - 1) -> SeatsOver(Len(tiles))]] :
               grid' = [GridNew(sh[1], sh[2], Len(tiles)) EXCEPT !.data = d]
    /\ pc' = "seeded"
    /\ UNCHANGED <<img, tile_w, tile_h, sample, tiles, rules, weights, seeds,
                   last, steps, resets, observed,
                   depth>>

\* a call of Grid::step (lines 173-246) on an Uncollapsed grid with the draw
\* r, committing a cell
StepCall ==
    /\ pc = "seeded"
    /\ GetState(grid) = "Uncollapsed"
    /\ \E pre \in {StepScan(grid, rules, weights)} :
           /\ ~pre.panic
           /\ \E r \in 0..(weights.den - 1) :
                  /\ grid' = StepCommit(pre, weights, r)
                  /\ last' = [op |-> "step", y |-> pre.y, x |-> pre.x,
                              draw |-> r]
    /\ pc' = "stepped"
    /\ steps' = steps + 1
    /\ UNCHANGED <<img, tile_w, tile_h, sample, tiles, rules, weights, seeds,
                   resets, observed,
                   depth>>

\* a call of Grid::step failing at the unwrap of line 222
StepCallPanic ==
    /\ pc = "seeded"
    /\ GetState(grid) = "Uncollapsed"
    /\ \E pre \in {StepScan(grid, rules, weights)} :
           /\ pre.panic
           /\ grid' = pre.grid
           /\ last' = [op |-> "panic", y |-> pre.y, x |-> pre.x, draw |-> 0]
    /\ pc' = "panicked"
    /\ UNCHANGED <<img, tile_w, tile_h, sample, tiles, rules, weights, seeds,
                   steps, resets, observed,
                   depth>>

\* a call of Grid::possibilities (&self) on the seat at (y, x) with a
\* direction; the returned Option is kept in `last`
PossibilitiesCall ==
    /\ pc = "seeded"
    /\ \E p \in Cells(grid), d \in Directions :
           last' = [op |-> "possibilities", y |-> p[1], x |-> p[2],
                    draw |-> 0, direction |-> d,
                    result |-> Possibilities(grid.data[p[1]][p[2]], d, rules)]
    /\ pc' = "queried"
    /\ UNCHANGED <<img, tile_w, tile_h, sample, tiles, rules, weights, grid,
                   seeds, steps, resets, observed,
                   depth>>

NextStep ==
    \/ GenerateTiles
    \/ GenerateRules
    \/ SeedAny
    \/ StepCall
    \/ StepCallPanic
    \/ PossibilitiesCall

SpecStep == InitStep /\ [][NextStep]_vars

(***************************************************************************)
(* Properties.                                                             *)
(***************************************************************************)
\* the elements of a sequence
SeqRange(q) == {q[i] : i \in 1..Len(q)}

\* the candidate set of a seat
Cand(seat) == IF seat.tag = "Collapsed" THEN {seat.id} ELSE SeqRange(seat.v)

\* the direction convention of generate_rules (lines 296-299):
\* LEFT = x-1, RIGHT = x+1, UP = y+1, DOWN = y-1
OffsetX(d) == IF d = "LEFT" THEN -1 ELSE IF d = "RIGHT" THEN 1 ELSE 0
OffsetY(d) == IF d = "UP" THEN 1 ELSE IF d = "DOWN" THEN -1 ELSE 0

InGrid(g, y, x) == y \in 0..(g.h - 1) /\ x \in 0..(g.w - 1)

\* the target of the last step, and its seat
Target == grid.data[last.y][last.x]

\* the queries a step at (y, x) makes (lines 195-221): neighbour and direction
Queries(g, y, x) ==
    {q \in {[y |-> y - 1, x |-> x, d |-> "UP"],
            [y |-> y + 1, x |-> x, d |-> "DOWN"],
            [y |-> y, x |-> x + 1, d |-> "RIGHT"],
            [y |-> y, x |-> x - 1, d |-> "LEFT"]} : InGrid(g, q.y, q.x)}

\* the ids a, as a set, with a rule (a, b, d) for a candidate b of the seat
PossSet(seat, d) ==
    {r[1] : r \in {r \in SeqRange(rules) : r[2] \in Cand(seat) /\ r[3] = d}}

\* the queries of the last step that matched a rule, and those that did not
Contributing ==
    {q \in Queries(grid, last.y, last.x) : PossSet(grid.data[q.y][q.x], q.d) # {}}
Missing ==
    {q \in Queries(grid, last.y, last.x) : PossSet(grid.data[q.y][q.x], q.d) = {}}
Common ==
    {a \in UNION {PossSet(grid.data[q.y][q.x], q.d) : q \in Contributing} :
        \A q \in Contributing : a \in PossSet(grid.data[q.y][q.x], q.d)}

\* C1: whenever Grid::collapse returns, every cell of the grid has a
\* candidate set of exactly size 1.
C1_SolvedAllSingle ==
    pc = "returned" =>
        \A p \in Cells(grid) : Cardinality(Cand(grid.data[p[1]][p[2]])) = 1

\* C1 witness: collapse has returned after a contradiction reset and at
\* least two steps on a grid of two or more symbols.
C1_Witness ==
    /\ pc = "returned"
    /\ resets > 0
    /\ steps >= 2
    /\ grid.num_possibilities >= 2

\* C2 (as claimed): when a step collapses the target t to id a, then for
\* every neighbour n of t that is Collapsed with id b and for which a rule
\* with subject b and offset d exists (d the position of t relative to n, in
\* the convention of generate_rules), the rule (a, b, d) is in the rule set.
C2_NeighbourRuleHolds ==
    (last.op = "step" /\ Target.tag = "Collapsed") =>
        \A d \in Directions :
            LET ny == last.y - OffsetY(d)
                nx == last.x - OffsetX(d)
            IN  InGrid(grid, ny, nx) =>
                    LET n == grid.data[ny][nx]
                    IN  (/\ n.tag = "Collapsed"
                         /\ \E r \in SeqRange(rules) : r[2] = n.id /\ r[3] = d)
                        => Rule(Target.id, n.id, d) \in SeqRange(rules)

\* C3 (as claimed): the seeded cells are re-applied after every reset: where
\* the driver takes a step after a reset, and in the final solved grid, each
\* seeded position holds its seeded id.
C3_SeedsReapplied ==
    (\/ pc = "collapse" /\ resets > 0 /\ GetState(grid) = "Uncollapsed"
     \/ pc = "returned")
    => \A sd \in seeds : Cand(grid.data[sd.y][sd.x]) = {sd.id}

\* C4: whenever collapse is called on a Contradicting grid, for every
\* symbol count N, it replaces the cell matrix by the all-Seat::new(N)
\* matrix, the state is then Uncollapsed and solving continues: the run
\* neither returns nor fails there.
C4_ResetThenUncollapsed ==
    [][(pc = "collapse" /\ GetState(grid) = "Contradicting") =>
          /\ \A p \in Cells(grid) :
                 grid'.data[p[1]][p[2]] = SeatNew(grid.num_possibilities)
          /\ GetState(grid') = "Uncollapsed"
          /\ pc' = "collapse"]_vars

\* the Contradicting arm alone: a call of collapse that finds room for its
\* frame and observes Contradicting replaces every cell by the initial seat
\* and goes on with a recursive call; with N >= 2 symbols every cell is then
\* Uncertain(0..N) and the state is Uncollapsed; with N = 0 every cell is
\* again empty and the state is Contradicting again.
ResetArmRenewsGrid ==
    [][(pc = "collapse" /\ GetState(grid) = "Contradicting"
        /\ pc' # "stack_overflow") =>
          /\ pc' = "collapse"
          /\ last'.op = "reset"
          /\ depth' >= depth
          /\ grid'.w = grid.w /\ grid'.h = grid.h
          /\ grid'.num_possibilities = grid.num_possibilities
          /\ \A p \in Cells(grid) :
                 grid'.data[p[1]][p[2]] = SeatNew(grid.num_possibilities)
          /\ grid.num_possibilities >= 2 =>
                 /\ \A p \in Cells(grid) :
                        /\ grid'.data[p[1]][p[2]].tag = "Uncertain"
                        /\ SeqRange(grid'.data[p[1]][p[2]].v)
                               = 0..(grid.num_possibilities - 1)
                 /\ GetState(grid') = "Uncollapsed"
          /\ grid.num_possibilities = 0 => GetState(grid') = "Contradicting"]_vars

\* C5: get_state returns Contradicting iff some cell has an empty candidate
\* set; otherwise Collapsed iff every cell holds exactly one candidate;
\* otherwise Uncollapsed; and it does not modify the grid.
C5_Classification ==
    [][(pc = "get_state" /\ pc' = "observed") =>
          LET empty == \E p \in Cells(grid) : Cand(grid.data[p[1]][p[2]]) = {}
              single == \A p \in Cells(grid) :
                            Cardinality(Cand(grid.data[p[1]][p[2]])) = 1
          IN  /\ grid' = grid
              /\ observed' \in {"Contradicting", "Collapsed", "Uncollapsed"}
              /\ observed' = "Contradicting" <=> empty
              /\ observed' = "Collapsed" <=> (~empty /\ single)
              /\ observed' = "Uncollapsed" <=> (~empty /\ ~single)]_vars

\* C5 witness: get_state has reported Contradicting on a grid that holds an
\* empty cell next to collapsed and undecided cells.
C5_Witness ==
    /\ pc = "observed"
    /\ observed = "Contradicting"
    /\ \E p \in Cells(grid) : Cardinality(Cand(grid.data[p[1]][p[2]])) = 1
    /\ \E p \in Cells(grid) : Cardinality(Cand(grid.data[p[1]][p[2]])) > 1

\* C6 (as claimed): when a neighbour's query matches no rule and another
\* neighbour contributes a constraint, the target is committed to the
\* empty-candidate state.
C6_MissingRuleContradicts ==
    (last.op = "step" /\ Missing # {} /\ Contributing # {}) =>
        Target = Uncertain(<<>>)

\* C6 (amended): a neighbour whose query matches no rule is skipped, also
\* when another neighbour contributes: the target is then committed to an id
\* of the intersection of the contributing neighbours' sets, and to the empty
\* state only if that intersection is empty.  A step commits only when some
\* neighbour contributes; when none does it fails at the unwrap of line 222.
C6_MissingRuleSkipped ==
    /\ (last.op = "step" /\ Missing # {} /\ Contributing # {}) =>
           IF Common = {}
           THEN Target = Uncertain(<<>>)
           ELSE Target.tag = "Collapsed" /\ Target.id \in Common
    /\ last.op = "step" => Contributing # {}
    /\ last.op = "panic" => (Contributing = {} /\ pc = "panicked")

\* C6 witness: a step with a neighbour without matching rule and two
\* contributing neighbours has collapsed its target to an id.
C6_Witness ==
    /\ last.op = "step"
    /\ Missing # {}
    /\ Cardinality(Contributing) >= 2
    /\ Target.tag = "Collapsed"

\* the tiles of the sample image, as a set
DistinctTiles ==
    {TileView(img, x * tile_w, y * tile_h, tile_w, tile_h) :
        y \in 0..(sample.h - 1), x \in 0..(sample.w - 1)}

\* the id of the sample cell (y, x)
SampleId(y, x) == sample.data[y][x].id

\* the tile of the sample cell number k (row-major)
TileOfCell(k) ==
    TileView(img, (k % sample.w) * tile_w, (k \div sample.w) * tile_h,
             tile_w, tile_h)

\* the first sample cell (row-major number) holding the tile of cell k
FirstCell(k) ==
    CHOOSE j \in 0..k :
        /\ TileOfCell(j) = TileOfCell(k)
        /\ \A i \in 0..(j - 1) : TileOfCell(i) # TileOfCell(k)

\* C8 (as claimed): generate_tiles assigns ids in first-seen row-major order
\* (equal tiles get the same id), num_possibilities is the number N of
\* distinct tiles (1 for a uniform sample), and the weight table of
\* generate_rules has exactly N entries (the single entry 1.0 for a uniform
\* sample).
C8_DenseIds ==
    pc \in {"generate_rules", "new_grid"} =>
        /\ \A k \in 0..(sample.w * sample.h - 1) :
               SampleId(k \div sample.w, k % sample.w)
                   = Cardinality({TileOfCell(j) : j \in 0..(FirstCell(k) - 1)})
        /\ sample.num_possibilities = Cardinality(DistinctTiles)
        /\ pc = "new_grid" =>
               /\ Len(weights.num) = Cardinality(DistinctTiles)
               /\ Cardinality(DistinctTiles) = 1 => weights.num = <<weights.den>>

\* the interior cells <<y, x>> of the sample: both indices strictly between
\* the bounds
Interior ==
    {p \in (0..(sample.h - 1)) \X (0..(sample.w - 1)) :
        /\ 0 < p[1] /\ p[1] < sample.h - 1
        /\ 0 < p[2] /\ p[2] < sample.w - 1}

\* C9 (as claimed): for a one-row sample of width >= 3, generate_rules
\* registers for every cell with 0 < x < w-1 the rules
\* (id at x-1, id at x, LEFT) and (id at x+1, id at x, RIGHT).
C9_RowRules ==
    (pc = "new_grid" /\ sample.h = 1 /\ sample.w >= 3) =>
        \A x \in 1..(sample.w - 2) :
            /\ Rule(SampleId(0, x - 1), SampleId(0, x), "LEFT") \in SeqRange(rules)
            /\ Rule(SampleId(0, x + 1), SampleId(0, x), "RIGHT") \in SeqRange(rules)

\* C9 (amended): generate_rules scans only cells whose row index and column
\* index are both strictly between the bounds: a one-row sample yields no
\* rule at all, and a sample of height >= 3 and width >= 3 yields, for every
\* such cell (y, x), the rules (id at x-1, id at x, LEFT) and
\* (id at x+1, id at x, RIGHT).
C9_InteriorRowRules ==
    pc = "new_grid" =>
        /\ sample.h = 1 => rules = <<>>
        /\ \A p \in Interior :
               /\ Rule(SampleId(p[1], p[2] - 1), SampleId(p[1], p[2]), "LEFT")
                      \in SeqRange(rules)
               /\ Rule(SampleId(p[1], p[2] + 1), SampleId(p[1], p[2]), "RIGHT")
                      \in SeqRange(rules)

\* C9 witness: generate_rules has run on the one-row sample [A, B, A].
C9_Witness ==
    /\ pc = "new_grid"
    /\ sample.h = 1 /\ sample.w = 3
    /\ SampleId(0, 0) = 0 /\ SampleId(0, 1) = 1 /\ SampleId(0, 2) = 0

\* C10: for every fully collapsed sample with w >= 3 and h >= 3 the rule
\* list of generate_rules has no duplicate and, as a set, is exactly
\* {(id at p+offset, id at p, offset) : p interior, offset a unit offset}.
C10_RuleSetExact ==
    (pc = "new_grid" /\ sample.w >= 3 /\ sample.h >= 3) =>
        /\ \A i, j \in 1..Len(rules) : rules[i] = rules[j] => i = j
        /\ SeqRange(rules)
               = {Rule(SampleId(p[1] + OffsetY(d), p[2] + OffsetX(d)),
                       SampleId(p[1], p[2]), d) :
                     p \in Interior, d \in Directions}

\* C10 witness: generate_rules has run on a sample with two interior cells
\* that yield a common rule.
C10_Witness ==
    /\ pc = "new_grid"
    /\ sample.w = 4 /\ sample.h = 3
    /\ sample.num_possibilities > 2
    /\ Len(rules) < 8

\* the seat the caller wrote at (y, x), if it seeded the cell
IsSeed(y, x) == \E s \in seeds : s.y = y /\ s.x = x
SeedSeat(y, x) ==
    LET s == CHOOSE s \in seeds : s.y = y /\ s.x = x
    IN  IF s.seat = "Collapsed" THEN Collapsed(s.id) ELSE Uncertain(<<s.id>>)

\* C11 (as stated): with N = 1, Grid::collapse returns after exactly one
\* step, without a reset, and every cell holds id 0.
C11_OneSymbolOneStep ==
    (pc = "returned" /\ grid.num_possibilities = 1) =>
        /\ steps = 1
        /\ resets = 0
        /\ \A p \in Cells(grid) : Cand(grid.data[p[1]][p[2]]) = {0}

\* C11 (amended): with N = 1, Grid::collapse returns on its first call
\* without any call of step and without a reset; every cell Grid::new built
\* is Collapsed(0), a seeded cell is as the caller wrote it, and every cell
\* holds the single candidate 0.
C11_OneSymbolNoStep ==
    (pc = "returned" /\ grid.num_possibilities = 1) =>
        /\ steps = 0
        /\ resets = 0
        /\ last.op = "return"
        /\ \A p \in Cells(grid) :
               /\ Cand(grid.data[p[1]][p[2]]) = {0}
               /\ grid.data[p[1]][p[2]] =
                      IF IsSeed(p[1], p[2]) THEN SeedSeat(p[1], p[2])
                      ELSE Collapsed(0)

\* C11 witness: collapse has returned on a seeded grid of one symbol and at
\* least four cells.
C11_Witness ==
    /\ pc = "returned"
    /\ grid.num_possibilities = 1
    /\ seeds # {}
    /\ grid.w * grid.h >= 4

\* the position of (y, x) in the row-major scan
RowMajor(g, y, x) == y * g.w + x

\* the entropy step computes for the cell (lines 181-188): that of the seat
\* after a one-element Uncertain list is finalized
ScanEntropy(seat) ==
    ShannonEntropy(IF seat.tag = "Uncertain" /\ Len(seat.v) = 1
                   THEN Collapsed(seat.v[1]) ELSE seat,
                   weights)

\* a transition that is a committing call of Grid::step
IsStep == pc = "collapse" /\ last'.op = "step" /\ steps' = steps + 1

\* C12: Grid::step selects, among the cells holding more than one candidate,
\* a cell of minimum entropy, the first one in row-major order; a cell that
\* holds exactly one candidate before the step is not selected and keeps its
\* id.
C12_SelectsUndecidedMinimum ==
    [][IsStep =>
          LET y == last'.y
              x == last'.x
              many(p) == Cardinality(Cand(grid.data[p[1]][p[2]])) > 1
          IN  /\ many(<<y, x>>)
              /\ \A p \in Cells(grid) :
                     many(p) =>
                         /\ ~EntropyLess(ScanEntropy(grid.data[p[1]][p[2]]),
                                         ScanEntropy(grid.data[y][x]))
                         /\ (ScanEntropy(grid.data[p[1]][p[2]])
                                 = ScanEntropy(grid.data[y][x])
                             => RowMajor(grid, y, x) <= RowMajor(grid, p[1], p[2]))
              /\ \A p \in Cells(grid) :
                     Cardinality(Cand(grid.data[p[1]][p[2]])) = 1 =>
                         Cand(grid'.data[p[1]][p[2]]) = Cand(grid.data[p[1]][p[2]])
      ]_vars

\* C13: Grid::step commits the target from the intersection C of the
\* neighbours' constraint sets and the draw r: the empty candidate set if and
\* only if C is empty; otherwise Collapsed(c) with c in C, where c is the
\* first element in ascending weight order whose weight exceeds r (so of the
\* least weight above r), or of the highest weight when no weight exceeds r.
C13_CommitFromIntersection ==
    last.op = "step" =>
        LET r == last.draw
        IN  /\ (Target = Uncertain(<<>>)) <=> (Common = {})
            /\ Common # {} =>
                   /\ Target.tag = "Collapsed"
                   /\ Target.id \in Common
                   /\ IF \E e \in Common : r < W(weights, e)
                      THEN /\ r < W(weights, Target.id)
                           /\ \A e \in Common :
                                  r < W(weights, e) =>
                                      W(weights, Target.id) <= W(weights, e)
                      ELSE \A e \in Common :
                               W(weights, e) <= W(weights, Target.id)

\* C13 witness: a step with two contributing neighbours whose intersection
\* has an id of weight above the draw and an id of weight at most the draw.
C13_Witness ==
    /\ last.op = "step"
    /\ pc = "stepped"
    /\ Cardinality(Contributing) = 2
    /\ \E e \in Common : last.draw < W(weights, e)
    /\ \E e \in Common : W(weights, e) <= last.draw

\* C14: Grid::possibilities(surrounding, direction, rules) returns, without
\* duplicates, exactly the ids a with a rule (a, b, direction) for some
\* candidate b of surrounding (the single id of a Collapsed seat, every
\* candidate of an Uncertain one); the Option is None exactly when this set
\* is empty; the grid and the rules are not modified.
C14_PossibilitiesIsUnion ==
    [][(pc = "seeded" /\ last'.op = "possibilities") =>
          LET res == last'.result
              seat == grid.data[last'.y][last'.x]
              allowed == {r[1] : r \in {r \in SeqRange(rules) :
                                          r[2] \in Cand(seat)
                                          /\ r[3] = last'.direction}}
          IN  /\ SeqRange(res.v) = allowed
              /\ \A i, j \in 1..Len(res.v) : res.v[i] = res.v[j] => i = j
              /\ res.some <=> allowed # {}
              /\ grid' = grid
              /\ rules' = rules
      ]_vars

\* C14 witness: possibilities has returned two ids for an Uncertain seat of
\* two candidates, each candidate alone allowing only one of them.
C14_Witness ==
    /\ last.op = "possibilities"
    /\ grid.data[last.y][last.x].tag = "Uncertain"
    /\ Len(grid.data[last.y][last.x].v) = 2
    /\ last.result.some
    /\ Len(last.result.v) = 2
    /\ \A b \in Cand(grid.data[last.y][last.x]) :
           Cardinality(PossSet(Collapsed(b), last.direction)) = 1

\* a transition that is a direct call of Grid::step committing a cell
IsStepCall == pc = "seeded" /\ last'.op = "step"

\* every cell but the target of the step keeps its candidate set, a seat
\* changing only from a one-element Uncertain list to Collapsed of its id;
\* the dimensions, the symbol count, the rules and the weights are kept
StepFrame ==
    /\ \A p \in Cells(grid) :
           (p # <<last'.y, last'.x>>) =>
               LET old == grid.data[p[1]][p[2]]
                   new == grid'.data[p[1]][p[2]]
               IN  /\ Cand(new) = Cand(old)
                   /\ new = IF old.tag = "Uncertain" /\ Len(old.v) = 1
                            THEN Collapsed(old.v[1]) ELSE old
    /\ grid'.w = grid.w
    /\ grid'.h = grid.h
    /\ grid'.num_possibilities = grid.num_possibilities
    /\ rules' = rules
    /\ weights' = weights

\* C15: a single Grid::step changes the candidate set of exactly one cell,
\* the target, and keeps every other cell's candidate set, the dimensions,
\* the symbol count, the rules and the weights.
C15_ExactlyOneCellChanges ==
    [][IsStepCall =>
          /\ Cand(grid'.data[last'.y][last'.x]) # Cand(grid.data[last'.y][last'.x])
          /\ StepFrame
      ]_vars

\* what a call of Grid::step does write: nothing but the target (the frame
\* above), which it leaves with at most one candidate; the target's
\* candidate set changes whenever it held more than one candidate
StepWritesOnlyTarget ==
    [][IsStepCall =>
          /\ StepFrame
          /\ Cardinality(Cand(grid.data[last'.y][last'.x])) > 1 =>
                 Cand(grid'.data[last'.y][last'.x])
                     # Cand(grid.data[last'.y][last'.x])
          /\ Cardinality(Cand(grid'.data[last'.y][last'.x])) <= 1
      ]_vars

\* the caller seeded at least one cell, each seed written as Collapsed(id)
CollapsedSeeds == seeds # {} /\ \A s \in seeds : s.seat = "Collapsed"

\* C16: in a run of Grid::collapse on a Grid::new grid with at least one
\* seeded Collapsed cell and the rules of generate_rules, every call of step
\* has a neighbour constraint set to intersect: step never fails on an empty
\* collection, also after a contradiction reset.
C16_StepAlwaysConstrained ==
    CollapsedSeeds => (pc # "panicked" /\ last.op # "panic")

\* the number of cells tagged Collapsed
NumCollapsed(g) ==
    Cardinality({p \in Cells(g) : g.data[p[1]][p[2]].tag = "Collapsed"})

\* C17: every call of Grid::step from an Uncollapsed state either increases
\* the number of cells tagged Collapsed or leaves the grid Contradicting, so
\* that at most w*h steps occur between the start of solving (or a reset)
\* and the next reset or the return.
C17_StepProgress ==
    [][(/\ pc = "collapse"
        /\ GetState(grid) = "Uncollapsed"
        /\ last'.op \in {"step", "panic"}) =>
          /\ \/ NumCollapsed(grid') > NumCollapsed(grid)
             \/ GetState(grid') = "Contradicting"
          /\ steps' <= grid.w * grid.h
      ]_vars

\* the same for the calls of step that return: each of them increases the
\* number of cells tagged Collapsed or leaves the grid Contradicting, and at
\* most w*h of them occur since the start or the last reset
StepProgressWhenCommitting ==
    [][(pc = "collapse" /\ last'.op = "step") =>
          /\ \/ NumCollapsed(grid') > NumCollapsed(grid)
             \/ GetState(grid') = "Contradicting"
          /\ steps' <= grid.w * grid.h
      ]_vars

\* every cell is Collapsed(id) with id < N, the full range 0..N or the empty
\* list, and at most one cell is empty
NoPartialSets(g) ==
    /\ \A p \in Cells(g) :
           LET s == g.data[p[1]][p[2]]
           IN  \/ s.tag = "Collapsed" /\ s.id \in 0..(g.num_possibilities - 1)
               \/ s = Uncertain(RangeVec(g.num_possibilities))
               \/ s = Uncertain(<<>>)
    /\ Cardinality({p \in Cells(g) : g.data[p[1]][p[2]] = Uncertain(<<>>)}) <= 1

\* (y, x) is the first cell of g, in row-major order, not tagged Collapsed
FirstUndecided(g, y, x) ==
    /\ g.data[y][x].tag # "Collapsed"
    /\ \A p \in Cells(g) :
           RowMajor(g, p[1], p[2]) < RowMajor(g, y, x) =>
               g.data[p[1]][p[2]].tag = "Collapsed"

\* C18: in every state Grid::collapse reaches from Grid::new(w, h, N), N >= 2
\* the number of tiles, with seeds written as Collapsed(id), each cell is
\* Collapsed(id) with id < N, the full range 0..N or empty, at most one cell
\* is empty, all undecided cells have equal entropy, and every step targets
\* the first cell in row-major order that is not Collapsed.
C18_NoPartialNarrowing ==
    [][(/\ pc' \in {"collapse", "returned", "panicked", "stack_overflow"}
        /\ grid'.num_possibilities >= 2
        /\ grid'.num_possibilities = Len(tiles')
        /\ \A s \in seeds' : s.seat = "Collapsed") =>
          /\ NoPartialSets(grid')
          /\ \A s, t \in {grid'.data[p[1]][p[2]] : p \in
                               {p \in Cells(grid') :
                                   /\ grid'.data[p[1]][p[2]].tag = "Uncertain"
                                   /\ grid'.data[p[1]][p[2]].v # <<>>}} :
                 ShannonEntropy(s, weights') = ShannonEntropy(t, weights')
          /\ (pc = "collapse" /\ last'.op \in {"step", "panic"}) =>
                 FirstUndecided(grid, last'.y, last'.x)
      ]_vars

\* C18 witness: after a reset, a second step has collapsed its target while
\* a later cell still holds the full range, on a seeded grid of two symbols.
C18_Witness ==
    /\ pc = "collapse"
    /\ CollapsedSeeds
    /\ grid.num_possibilities = 2
    /\ grid.num_possibilities = Len(tiles)
    /\ resets > 0
    /\ steps >= 2
    /\ last.op = "step"
    /\ Target.tag = "Collapsed"
    /\ \E p \in Cells(grid) :
           /\ RowMajor(grid, p[1], p[2]) > RowMajor(grid, last.y, last.x)
           /\ grid.data[p[1]][p[2]] = Uncertain(RangeVec(2))

\* C19: whenever Grid::collapse returns on a Grid::new grid whose seeds were
\* written as Collapsed(id), every cell is tagged Collapsed, get_id is Ok(id)
\* for every cell and the unwrap of Grid::render does not fail; in every
\* state get_id is Ok(id) for a Collapsed(id) seat and the error exactly for
\* an Uncertain seat.
C19_RenderNeverFails ==
    /\ \A p \in Cells(grid) :
           LET s == grid.data[p[1]][p[2]]
           IN  /\ GetId(s).ok <=> s.tag = "Collapsed"
               /\ GetId(s).ok => GetId(s).id = s.id
    /\ (/\ pc \in {"returned", "rendered", "render_panicked"}
        /\ \A s \in seeds : s.seat = "Collapsed") =>
           /\ \A p \in Cells(grid) :
                  /\ grid.data[p[1]][p[2]].tag = "Collapsed"
                  /\ GetId(grid.data[p[1]][p[2]]) =
                         [ok |-> TRUE, id |-> grid.data[p[1]][p[2]].id]
           /\ pc # "render_panicked"
           /\ pc = "rendered" =>
                  \A p \in Cells(grid) :
                      last.output[p[1]][p[2]] = grid.data[p[1]][p[2]].id

\* C19 witness: the grid has been rendered after a run of at least two steps
\* on a seeded grid of two symbols.
C19_Witness ==
    /\ pc = "rendered"
    /\ CollapsedSeeds
    /\ grid.num_possibilities = 2
    /\ steps >= 2

====
